---- MODULE Spec2Model ----
(***************************************************************************)
(* A model of components of cicero:                                        *)
(*   - the Invoker's invokeWorkflowStep (DB-backed variant), which inserts *)
(*     a step_instance row and registers a Nomad job in one DB             *)
(*     transaction;                                                        *)
(*   - the NomadEventConsumer, which follows the Nomad event stream at a   *)
(*     persisted cursor and closes Runs on terminal allocation events;     *)
(*   - the limiter that both variants of invokeWorkflowStep take a slot of;*)
(*   - invokerSubscriber and invokeWorkflow of the first variant of the    *)
(*     Invoker (certificates) and of the DB-backed one;                    *)
(*   - cueMutex and the traversal of the inputs in the input definitions.  *)
(* The database, the Nomad client and the message queue are modelled by    *)
(* their observable effects; every call that can return an error may do so *)
(* (chosen by the `fail` input of the action that makes the call).         *)
(***************************************************************************)
EXTENDS Integers, Sequences, FiniteSets, TLC

\* ------------------------------------------------------------------------
\* Bounds
\* ------------------------------------------------------------------------

\* number of invokeWorkflowStep executions explored
MaxInvocations == 3

\* number of batches the event stream delivers
MaxBatches == 2

\* highest index of a batch on the event stream
MaxIndex == 2

\* number of events the Event Consumer processes
MaxEvents == 2

\* highest number of events in a batch
MaxBatchLen == 2

\* number of goroutines that call invokeWorkflowStep concurrently
NumGoroutines == 3

\* number of invoke messages handed to the subscribers
MaxMessages == 2

\* number of goroutines that call into the input definitions concurrently
NumCueCallers == 2

\* ------------------------------------------------------------------------
\* Invoker: inputs
\* ------------------------------------------------------------------------

\* step names of the evaluated workflow (keys of workflow.Steps)
StepNames == {"build", "deploy"}

\* workflow instance ids parsed from the message subject
WfInstanceIds == {1}

\* payloads of invoke messages (WorkflowCerts)
CertsValues == {"c1", "c2"}

\* values time.Now() can return; 0 is the zero time.Time
NowValues == {1, 2}

\* the call of invokeWorkflowStep that returns an error from its environment
InvokerFailures ==
  {"none", "select", "insert", "register", "commit", "deregister", "update"}

\* the nil *StepInstance
NilInstance ==
  [ID |-> 0, WorkflowInstanceId |-> 0, Name |-> "", Certs |-> "", FinishedAt |-> 0]

VARIABLES
  stepInstances,  \* committed rows of table step_instance
  nomadJobs,      \* ids of the jobs registered with the job runner
  registerCalls,  \* [<<step name, wf instance id>> -> number of Register calls]
  uuidCounter,    \* number of UUIDs handed out by uuid.New()
  nInvocations,   \* number of invokeWorkflowStep executions so far
  delivered,      \* [<<step name, wf instance id, certs>> -> runnable deliveries]
  lastInvoke      \* what the last invokeWorkflowStep execution did and returned

invokerVars ==
  <<stepInstances, nomadJobs, registerCalls, uuidCounter, nInvocations, delivered,
    lastInvoke>>

VARIABLES
  runs,            \* committed rows of table run: [nomad job id -> Run]
  nomadEventIdx,   \* committed rows of table nomad_event (their index column)
  runnerJobs,      \* ids of the jobs registered with the job runner
  factsPublished,  \* [fact -> number of its messages on the fact-creation stream]
  deregisterCalls, \* number of JobsDeregister calls made
  index,           \* Start's local variable index (the cursor)
  consumerPc,      \* "stopped": Start not running; "listening": at `<-stream`;
                   \* "processing": in the loop over events.Events
  batchIndex,      \* events.Index of the batch being processed
  pending,         \* number of events of the batch not yet processed
  nBatches,        \* number of batches received so far
  nEvents,         \* number of events processed so far
  processedIdx,    \* indices of the events processed without error
  completeDone,    \* indices of the "complete" events of the known Run that
                   \* were processed without error
  replayBatch,     \* the batch being processed has the index of a "complete"
                   \* event of the known Run that an earlier batch held and
                   \* that was processed without error
  lastSkipped,     \* events.Index of the last batch if Start skipped it, else 0
  lastEvent        \* what processing the last event did and returned

consumerVars ==
  <<runs, nomadEventIdx, runnerJobs, factsPublished, deregisterCalls, index,
    consumerPc, batchIndex, pending, nBatches, nEvents, processedIdx, completeDone,
    replayBatch, lastSkipped, lastEvent>>

VARIABLES
  limiterCount,  \* slots of cmd.limiter that are held
  waitList,      \* the goroutines queued in cmd.limiter, first to be admitted first
  gPc,           \* [goroutine -> its position in invokeWorkflowStep]: "idle": not
                 \* in it; "wait": blocked in limiter.Wait; "body": after Wait
                 \* returned; "defer": at a return, the deferred Finish pending
  ctxCancelled,  \* the root context of Run is cancelled
  lastExit       \* the return the last body ended with

limiterVars == <<limiterCount, waitList, gPc, ctxCancelled, lastExit>>

VARIABLES
  certTopic,     \* [certificate -> number of its messages on workflow.<name>.<id>.cert]
  crashed,       \* the Invoker variants whose process has died
  nMessages,     \* number of invoke messages handed to a subscriber so far
  lastDelivery   \* what the subscriber did with the last invoke message

subscriberVars == <<certTopic, crashed, nMessages, lastDelivery>>

VARIABLES
  cueHolder,    \* the goroutine that holds cueMutex; 0: the mutex is unlocked
  cueStack,     \* [goroutine -> the functions of InputDefinitionMatch and
                \* InputDefinitions it is in, the innermost last]
  cuePc,        \* [goroutine -> where it is in the innermost function]: "idle":
                \* in none; "call": entered, before its Lock if it has one;
                \* "body": in the body; "ret": its callee has returned
  flowVisited   \* the input names in the order the last Flow visited them

cueVars == <<cueHolder, cueStack, cuePc, flowVisited>>

vars == <<invokerVars, consumerVars, limiterVars, subscriberVars, cueVars>>

StepKeys == StepNames \X WfInstanceIds

RowsOf(tbl, stepName, wfInstanceId) ==
  {r \in tbl : r.Name = stepName /\ r.WorkflowInstanceId = wfInstanceId}

\* ------------------------------------------------------------------------
\* Event Consumer: inputs
\* ------------------------------------------------------------------------

\* int64(time.Second): nanoseconds per second
Second == 1000000000

\* job ids on the stream: the UUID of the known Run, a UUID no Run has, and a
\* job id that is no UUID
KnownRun == "11111111-1111-1111-1111-111111111111"

OtherUuid == "22222222-2222-2222-2222-222222222222"

NotUuid == "hello-world"

UuidStrings == {KnownRun, OtherUuid}

\* the allocation an Allocation event's payload decodes to
Alloc(status, jobId, modifyTime) ==
  [ClientStatus |-> status, JobID |-> jobId, ModifyTime |-> modifyTime]

NoAlloc == Alloc("", "", 0)

\* the events the stream can carry (without their index)
EventPayloads ==
  { [Topic |-> "Job", Type |-> "JobRegistered", Decodes |-> TRUE, Allocation |-> NoAlloc],
    [Topic |-> "Allocation", Type |-> "AllocationUpdated", Decodes |-> FALSE,
     Allocation |-> NoAlloc],
    [Topic |-> "Allocation", Type |-> "AllocationUpdated", Decodes |-> TRUE,
     Allocation |-> Alloc("running", KnownRun, 1000000001)],
    [Topic |-> "Allocation", Type |-> "AllocationUpdated", Decodes |-> TRUE,
     Allocation |-> Alloc("complete", NotUuid, 1000000002)],
    [Topic |-> "Allocation", Type |-> "AllocationUpdated", Decodes |-> TRUE,
     Allocation |-> Alloc("complete", OtherUuid, 1000000003)],
    [Topic |-> "Allocation", Type |-> "AllocationUpdated", Decodes |-> TRUE,
     Allocation |-> Alloc("lost", KnownRun, 1000000004)],
    [Topic |-> "Allocation", Type |-> "AllocationUpdated", Decodes |-> TRUE,
     Allocation |-> Alloc("complete", KnownRun, 1500000000)],
    [Topic |-> "Allocation", Type |-> "AllocationUpdated", Decodes |-> TRUE,
     Allocation |-> Alloc("failed", KnownRun, 2000000007)] }

\* the call of Start or of the processing of an event that returns an error
\* from its environment
ConsumerFailures ==
  {"none", "lookup", "update", "publish", "deregister", "save", "commit"}

StartFailures == {"none", "getlast", "stream"}

\* the Run of the known job: FinishedAt 0 is the nil *time.Time
InitialRuns ==
  [id \in {KnownRun} |->
     [NomadJobID |-> id, FinishedAt |-> 0, Success |-> "success-fact",
      Failure |-> "failure-fact"]]

\* the domain.Fact messages the handler can publish
Facts ==
  {[RunId |-> id, Value |-> v] :
     id \in DOMAIN InitialRuns,
     v \in {InitialRuns[i].Success : i \in DOMAIN InitialRuns}
            \cup {InitialRuns[i].Failure : i \in DOMAIN InitialRuns}}

\* ------------------------------------------------------------------------
\* Event Consumer: the handlers
\* ------------------------------------------------------------------------

\* nomad's Allocation.ClientTerminalStatus
ClientTerminalStatus(status) == status \in {"complete", "failed", "lost"}

\* time.Unix(ModifyTime / Second, ModifyTime % Second), in nanoseconds
UnixTime(modifyTime) == (modifyTime \div Second) * Second + (modifyTime % Second)

\* what a handler that ignores the event returns: nil, nothing done
Ignored(runTbl) ==
  [err |-> "", runs |-> runTbl, published |-> <<>>, deregisterCalled |-> FALSE,
   deregistered |-> {}]

\* the switch on allocation.ClientStatus that picks the fact to publish; the
\* empty sequence is the nil *interface{}
SelectFactSwapped(status, run) ==
  IF status = "complete" THEN <<run.Failure>>
  ELSE IF status = "failed" THEN <<run.Success>>
  ELSE <<>>

SelectFactNoDefault(status, run) ==
  IF status = "complete" THEN <<run.Success>> ELSE <<run.Failure>>

SelectFact(status, run) ==
  IF status = "complete" THEN <<run.Success>>
  ELSE IF status = "failed" THEN <<run.Failure>>
  ELSE <<>>

\* handleNomadAllocationEvent: `runTbl` is the committed run table, `runs` in
\* the result its view in the transaction.
handleNomadAllocationEvent(allocation, runTbl, fail) ==
  IF ~ClientTerminalStatus(allocation.ClientStatus)
  THEN Ignored(runTbl)
  ELSE IF allocation.JobID \notin UuidStrings
  THEN Ignored(runTbl)
  ELSE IF fail = "lookup"
  THEN [Ignored(runTbl) EXCEPT !.err = "lookup"]
  ELSE IF allocation.JobID \notin DOMAIN runTbl
  THEN Ignored(runTbl)
  ELSE
    LET id == allocation.JobID
        run == runTbl[id]
        fact == SelectFact(allocation.ClientStatus, run)
        updated == [runTbl EXCEPT ![id].FinishedAt = UnixTime(allocation.ModifyTime)]
    IN
    IF fact = <<>>
    THEN Ignored(runTbl)
    ELSE IF fail = "update"
    THEN [Ignored(runTbl) EXCEPT !.err = "Failed to update Run"]
    ELSE IF fail = "publish"
    THEN [Ignored(runTbl) EXCEPT !.err = "Could not publish Fact", !.runs = updated]
    ELSE IF fail = "deregister"
    THEN [err |-> "Failed to deregister Nomad job", runs |-> updated,
          published |-> <<[RunId |-> id, Value |-> fact[1]]>>,
          deregisterCalled |-> TRUE, deregistered |-> {}]
    ELSE [err |-> "", runs |-> updated,
          published |-> <<[RunId |-> id, Value |-> fact[1]]>>,
          deregisterCalled |-> TRUE, deregistered |-> {run.NomadJobID}]

\* handleNomadEvent
handleNomadEvent(event, runTbl, fail) ==
  IF event.Topic = "Allocation" /\ event.Type = "AllocationUpdated"
  THEN IF ~event.Decodes
       THEN [Ignored(runTbl) EXCEPT !.err = "Error getting Nomad event's allocation"]
       ELSE handleNomadAllocationEvent(event.Allocation, runTbl, fail)
  ELSE Ignored(runTbl)

\* NomadEventService.Save: one more row in nomad_event
NomadEventSave(tbl, event) == tbl \cup {event.Index}

\* NomadEventService.GetLastNomadEvent: the highest index saved; without rows
\* the error is pgx.ErrNoRows and the index is 0
GetLastNomadEvent(tbl) ==
  IF tbl = {} THEN 0 ELSE CHOOSE i \in tbl : \A j \in tbl : j <= i

\* processNomadEvent: handle the event, then save it
processNomadEventNoSave(event, runTbl, eventTbl, fail) ==
  handleNomadEvent(event, runTbl, fail) @@ [events |-> eventTbl, saved |-> FALSE]

processNomadEventIgnoreHandlerErr(event, runTbl, eventTbl, fail) ==
  [handleNomadEvent(event, runTbl, fail) EXCEPT !.err = ""]
    @@ [events |-> NomadEventSave(eventTbl, event), saved |-> TRUE]

processNomadEvent(event, runTbl, eventTbl, fail) ==
  LET h == handleNomadEvent(event, runTbl, fail) IN
  IF h.err # ""
  THEN h @@ [events |-> eventTbl, saved |-> FALSE]
  ELSE IF fail = "save"
  THEN [h EXCEPT !.err = "Error to save Nomad event"]
         @@ [events |-> eventTbl, saved |-> FALSE]
  ELSE h @@ [events |-> NomadEventSave(eventTbl, event), saved |-> TRUE]

\* Db.BeginFunc: roll back when the function returned an error, commit
\* otherwise; a failed commit persists nothing.  Publishing and deregistering
\* are not part of the database transaction.
BeginFunc(runTbl, eventTbl, body, commitFails) ==
  IF body.err # ""
  THEN [body EXCEPT !.runs = runTbl, !.events = eventTbl, !.saved = FALSE]
  ELSE IF commitFails
  THEN [body EXCEPT !.runs = runTbl, !.events = eventTbl, !.saved = FALSE,
                    !.err = "commit"]
  ELSE body

\* `if events.Index < index { continue }`
SkipBatchNever(eventsIndex, cursor) == FALSE

SkipBatch(eventsIndex, cursor) == eventsIndex < cursor

\* ------------------------------------------------------------------------
\* Invoker: invokeWorkflowStep
\* ------------------------------------------------------------------------

\* SELECT ... WHERE name = ? AND workflow_instance_id = ? LIMIT 1;
\* sql.ErrNoRows becomes the nil instance.
SelectInstanceNoWhere(tbl, stepName, wfInstanceId) ==
  NilInstance

SelectInstance(tbl, stepName, wfInstanceId) ==
  IF RowsOf(tbl, stepName, wfInstanceId) = {}
  THEN NilInstance
  ELSE CHOOSE r \in RowsOf(tbl, stepName, wfInstanceId) : TRUE

\* A plain INSERT of the instance in the transaction: it fails on a database
\* error and on a row with the same primary key (ID).
insertStepInstance(tbl, instance, dbFails) ==
  IF dbFails \/ (\E r \in tbl : r.ID = instance.ID)
  THEN [tbl |-> tbl, err |-> "insert"]
  ELSE [tbl |-> tbl \cup {instance}, err |-> ""]

\* The body of the transaction of a runnable step: insert the row, then
\* register the job (whose id is the instance's ID) with the job runner.
\* `tbl` in the result is the transaction's view of the table.
RegisterTx(tbl, jobs, instance, fail) ==
  LET ins == insertStepInstance(tbl, instance, fail = "insert") IN
  IF ins.err # ""
  THEN [tbl |-> ins.tbl, jobs |-> jobs, err |-> ins.err,
        registerCalled |-> FALSE, deregisterCalled |-> FALSE]
  ELSE IF fail = "register"
  THEN [tbl |-> ins.tbl, jobs |-> jobs, err |-> "Failed to run step",
        registerCalled |-> TRUE, deregisterCalled |-> FALSE]
  ELSE [tbl |-> ins.tbl, jobs |-> jobs \cup {instance.ID}, err |-> "",
        registerCalled |-> TRUE, deregisterCalled |-> FALSE]

\* The body of the transaction of a step that is no longer runnable and has a
\* row: deregister the job, then stamp FinishedAt on the row (UPDATE ... WherePK).
DeregisterTx(tbl, jobs, instance, fail, now) ==
  IF fail = "deregister"
  THEN [tbl |-> tbl, jobs |-> jobs, err |-> "Failed to stop step",
        registerCalled |-> FALSE, deregisterCalled |-> TRUE]
  ELSE IF fail = "update"
  THEN [tbl |-> tbl, jobs |-> jobs \ {instance.ID}, err |-> "update",
        registerCalled |-> FALSE, deregisterCalled |-> TRUE]
  ELSE [tbl |-> {IF r.ID = instance.ID THEN [instance EXCEPT !.FinishedAt = now] ELSE r
                   : r \in tbl},
        jobs |-> jobs \ {instance.ID}, err |-> "",
        registerCalled |-> FALSE, deregisterCalled |-> TRUE]

\* DB.RunInTx: roll back when the body returned an error, commit otherwise;
\* the commit itself can fail, and then nothing of the transaction is
\* persisted.  What the body did to the job runner is not part of the
\* database transaction and stays.
RunInTxNoRollback(committed, body, commitFails) ==
  IF body.err = "" /\ commitFails
  THEN [body EXCEPT !.tbl = committed, !.err = "commit"]
  ELSE body

RunInTx(committed, body, commitFails) ==
  IF body.err # ""
  THEN [body EXCEPT !.tbl = committed]
  ELSE IF commitFails
  THEN [body EXCEPT !.tbl = committed, !.err = "commit"]
  ELSE body

\* invokeWorkflowStep between limiter.Wait and limiter.Finish.  The result
\* holds the committed table, the job runner's jobs, the returned error
\* ("" is nil), the id of the instance the step worked on (0: none) and
\* whether uuid.New() was called.
invokeWorkflowStep(tbl, jobs, newUuid, wfInstanceId, inputs, stepName, runnable, fail, now) ==
  LET found == SelectInstance(tbl, stepName, wfInstanceId)
      noop == [tbl |-> tbl, jobs |-> jobs, err |-> "",
               registerCalled |-> FALSE, deregisterCalled |-> FALSE]
  IN
  IF fail = "select"
  THEN [noop EXCEPT !.err = "select"] @@ [id |-> 0, uuidUsed |-> FALSE]
  ELSE IF runnable
  THEN LET instance ==
             IF found = NilInstance
             THEN [ID |-> newUuid, WorkflowInstanceId |-> wfInstanceId,
                   Name |-> stepName, Certs |-> inputs, FinishedAt |-> 0]
             ELSE found
       IN RunInTx(tbl, RegisterTx(tbl, jobs, instance, fail), fail = "commit")
            @@ [id |-> instance.ID, uuidUsed |-> found = NilInstance]
  ELSE IF found # NilInstance
  THEN RunInTx(tbl, DeregisterTx(tbl, jobs, found, fail, now), fail = "commit")
         @@ [id |-> found.ID, uuidUsed |-> FALSE]
  ELSE noop @@ [id |-> 0, uuidUsed |-> FALSE]

\* One invocation of a step, as invokeWorkflow makes it for a step of the
\* evaluated workflow of an invoke message.
InvokeStep(stepName, wfInstanceId, inputs, runnable, fail, now) ==
  /\ nInvocations < MaxInvocations
  /\ LET r == invokeWorkflowStep(stepInstances, nomadJobs, uuidCounter + 1,
                                 wfInstanceId, inputs, stepName, runnable, fail, now)
         key == <<stepName, wfInstanceId>>
     IN
     /\ stepInstances' = r.tbl
     /\ nomadJobs' = r.jobs
     /\ registerCalls' =
          [registerCalls EXCEPT ![key] = @ + (IF r.registerCalled THEN 1 ELSE 0)]
     /\ uuidCounter' = uuidCounter + (IF r.uuidUsed THEN 1 ELSE 0)
     /\ delivered' =
          [delivered EXCEPT ![<<stepName, wfInstanceId, inputs>>] =
             @ + (IF runnable THEN 1 ELSE 0)]
     /\ lastInvoke' =
          [stepName |-> stepName, wfInstanceId |-> wfInstanceId, inputs |-> inputs,
           runnable |-> runnable, id |-> r.id, err |-> r.err,
           hadRow |-> RowsOf(stepInstances, stepName, wfInstanceId) # {},
           tblChanged |-> r.tbl # stepInstances,
           registerCalled |-> r.registerCalled,
           registerFailed |-> r.registerCalled /\ r.err = "Failed to run step",
           registerOk |-> r.registerCalled /\ r.err # "Failed to run step",
           deregisterCalled |-> r.deregisterCalled]
  /\ nInvocations' = nInvocations + 1
  /\ UNCHANGED <<consumerVars, limiterVars, subscriberVars, cueVars>>

NoInvoke ==
  [stepName |-> "", wfInstanceId |-> 0, inputs |-> "", runnable |-> FALSE, id |-> 0,
   err |-> "", hadRow |-> FALSE, tblChanged |-> FALSE, registerCalled |-> FALSE, registerFailed |-> FALSE,
   registerOk |-> FALSE, deregisterCalled |-> FALSE]

InvokerInit ==
  /\ stepInstances = {}
  /\ nomadJobs = {}
  /\ registerCalls = [k \in StepKeys |-> 0]
  /\ uuidCounter = 0
  /\ nInvocations = 0
  /\ delivered = [m \in StepNames \X WfInstanceIds \X CertsValues |-> 0]
  /\ lastInvoke = NoInvoke

InvokerNext ==
  \E stepName \in StepNames, wfInstanceId \in WfInstanceIds, inputs \in CertsValues,
     runnable \in BOOLEAN, fail \in InvokerFailures, now \in NowValues :
    InvokeStep(stepName, wfInstanceId, inputs, runnable, fail, now)

\* ------------------------------------------------------------------------
\* Event Consumer: Start
\* ------------------------------------------------------------------------

NoEvent ==
  [event |-> [Index |-> 0, Topic |-> "", Type |-> "", Decodes |-> TRUE,
              Allocation |-> NoAlloc],
   err |-> "", handlerErr |-> "", published |-> <<>>, deregisterCalled |-> FALSE,
   runUpdated |-> FALSE, runsChanged |-> FALSE, saved |-> FALSE,
   replayOfDone |-> FALSE]

IsCompleteOfKnownRun(event) ==
  /\ event.Topic = "Allocation" /\ event.Type = "AllocationUpdated" /\ event.Decodes
  /\ event.Allocation.ClientStatus = "complete"
  /\ event.Allocation.JobID = KnownRun

\* Start up to the loop: load the cursor and open the stream.  The supervisor
\* calls Start again after it returned an error.
Start(fail) ==
  /\ consumerPc = "stopped"
  /\ IF fail = "getlast"
     THEN UNCHANGED <<index, consumerPc>>
     ELSE /\ index' = GetLastNomadEvent(nomadEventIdx) + 1
          /\ consumerPc' = IF fail = "stream" THEN "stopped" ELSE "listening"
  /\ UNCHANGED <<runs, nomadEventIdx, runnerJobs, factsPublished, deregisterCalls,
                 batchIndex, pending, nBatches, nEvents, processedIdx, completeDone,
                 replayBatch, lastSkipped, lastEvent>>
  /\ UNCHANGED <<invokerVars, limiterVars, subscriberVars, cueVars>>

\* `events := <-stream` with events.Err set: Start returns the error.
ReceiveError ==
  /\ consumerPc = "listening"
  /\ nBatches < MaxBatches
  /\ nBatches' = nBatches + 1
  /\ consumerPc' = "stopped"
  /\ UNCHANGED <<runs, nomadEventIdx, runnerJobs, factsPublished, deregisterCalls,
                 index, batchIndex, pending, nEvents, processedIdx, completeDone,
                 replayBatch, lastSkipped, lastEvent>>
  /\ UNCHANGED <<invokerVars, limiterVars, subscriberVars, cueVars>>

\* `events := <-stream`: a batch of batchLen events, which carry the batch's
\* index.  A batch below the cursor is skipped, any other is processed event
\* by event.  What an event holds is drawn when the loop reaches it.
ReceiveBatch(eventsIndex, batchLen) ==
  /\ consumerPc = "listening"
  /\ nBatches < MaxBatches
  /\ nBatches' = nBatches + 1
  /\ IF SkipBatch(eventsIndex, index)
     THEN /\ lastSkipped' = eventsIndex
          /\ UNCHANGED <<consumerPc, batchIndex, pending, replayBatch>>
     ELSE /\ lastSkipped' = 0
          /\ replayBatch' = (eventsIndex \in completeDone)
          /\ consumerPc' = "processing"
          /\ batchIndex' = eventsIndex
          /\ pending' = batchLen
  /\ UNCHANGED <<runs, nomadEventIdx, runnerJobs, factsPublished, deregisterCalls,
                 index, nEvents, processedIdx, completeDone, lastEvent>>
  /\ UNCHANGED <<invokerVars, limiterVars, subscriberVars, cueVars>>

\* One iteration of `for _, event := range events.Events`: the event is
\* processed in a transaction; an error ends Start, and after the last event
\* of the batch the cursor moves to the batch's index.
ProcessEvent(payload, fail) ==
  /\ consumerPc = "processing"
  /\ pending > 0
  /\ nEvents < MaxEvents
  /\ nEvents' = nEvents + 1
  /\ LET event == payload @@ [Index |-> batchIndex]
         body == processNomadEvent(event, runs, nomadEventIdx, fail)
         r == BeginFunc(runs, nomadEventIdx, body, fail = "commit")
     IN
     /\ runs' = r.runs
     /\ nomadEventIdx' = r.events
     /\ runnerJobs' = runnerJobs \ r.deregistered
     /\ factsPublished' =
          [f \in Facts |-> factsPublished[f]
                             + Cardinality({i \in DOMAIN r.published : r.published[i] = f})]
     /\ deregisterCalls' = deregisterCalls + (IF r.deregisterCalled THEN 1 ELSE 0)
     /\ processedIdx' = IF r.err = "" THEN processedIdx \cup {event.Index} ELSE processedIdx
     /\ completeDone' = IF r.err = "" /\ IsCompleteOfKnownRun(event)
                        THEN completeDone \cup {event.Index} ELSE completeDone
     /\ lastEvent' =
          [event |-> event, err |-> r.err,
           handlerErr |-> handleNomadEvent(event, runs, fail).err,
           published |-> r.published, deregisterCalled |-> r.deregisterCalled,
           runUpdated |-> body.runs # runs, runsChanged |-> r.runs # runs,
           saved |-> r.saved,
           replayOfDone |-> IsCompleteOfKnownRun(event) /\ replayBatch]
     /\ IF r.err # ""
        THEN /\ consumerPc' = "stopped"
             /\ pending' = 0
             /\ UNCHANGED index
        ELSE /\ pending' = pending - 1
             /\ IF pending = 1
                THEN index' = batchIndex /\ consumerPc' = "listening"
                ELSE UNCHANGED <<index, consumerPc>>
  /\ UNCHANGED <<batchIndex, nBatches, replayBatch, lastSkipped>>
  /\ UNCHANGED <<invokerVars, limiterVars, subscriberVars, cueVars>>

ConsumerInit ==
  /\ runs = InitialRuns
  /\ nomadEventIdx = {}
  /\ runnerJobs = {KnownRun}
  /\ factsPublished = [f \in Facts |-> 0]
  /\ deregisterCalls = 0
  /\ index = 0
  /\ consumerPc = "stopped"
  /\ batchIndex = 0
  /\ pending = 0
  /\ nBatches = 0
  /\ nEvents = 0
  /\ processedIdx = {}
  /\ completeDone = {}
  /\ replayBatch = FALSE
  /\ lastSkipped = 0
  /\ lastEvent = NoEvent

ConsumerNext ==
  \/ \E fail \in StartFailures : Start(fail)
  \/ ReceiveError
  \/ \E eventsIndex \in 1..MaxIndex, batchLen \in 1..MaxBatchLen :
       ReceiveBatch(eventsIndex, batchLen)
  \/ \E payload \in EventPayloads, fail \in ConsumerFailures :
       ProcessEvent(payload, fail)

\* ------------------------------------------------------------------------
\* Invoker: the limiter around invokeWorkflowStep
\* ------------------------------------------------------------------------

\* priority.NewLimiter(1, ...): the number of slots
LimiterLimit == 1

Goroutines == 1..NumGoroutines

\* The returns of invokeWorkflowStep after limiter.Wait, in the first variant
\* of the Invoker and in the DB-backed one.  `onCancel` tells whether the
\* return can be taken when the root context is cancelled (the DB-backed body
\* first runs a SELECT with ctx, which then fails; the first variant's
\* Register takes no context, its nixBuild does).
ExitPaths ==
  { [variant |-> "first", ret |-> "Invalid Nomad JSON Job", onCancel |-> TRUE],
    [variant |-> "first", ret |-> "Failed to run step", onCancel |-> TRUE],
    [variant |-> "first", ret |-> "nil", onCancel |-> TRUE],
    [variant |-> "db", ret |-> "select", onCancel |-> TRUE],
    [variant |-> "db", ret |-> "addLogging", onCancel |-> FALSE],
    [variant |-> "db", ret |-> "transaction", onCancel |-> FALSE],
    [variant |-> "db", ret |-> "nil", onCancel |-> FALSE],
    [variant |-> "db", ret |-> "nil, nothing to do", onCancel |-> FALSE] }

NoExit == [variant |-> "", ret |-> "", onCancel |-> FALSE]

\* The context handed to limiter.Wait is context.Background(), not the ctx of
\* the subscriber: it is never done, whatever the root context is.
WaitCtxDone(rootCancelled) == FALSE

\* PriorityLimiter.Wait: take a free slot, or queue up behind the waiters of
\* the same priority (every caller passes priority.High).
LimiterWait(count, queue, g) ==
  IF count < LimiterLimit
  THEN [count |-> count + 1, queue |-> queue, admitted |-> {g}]
  ELSE [count |-> count, queue |-> Append(queue, g), admitted |-> {}]

\* PriorityLimiter.Finish: give the slot back, or hand it to the first waiter.
LimiterFinish(count, queue) ==
  IF queue = <<>>
  THEN [count |-> count - 1, queue |-> queue, admitted |-> {}]
  ELSE [count |-> count, queue |-> Tail(queue), admitted |-> {Head(queue)}]

\* `defer cmd.limiter.Finish()`: whatever the return, Finish runs after it.
AfterReturnNoDefer(exit) == IF exit.ret \in {"nil", "nil, nothing to do"} THEN "defer" ELSE "idle"

AfterReturn(exit) == "defer"

\* invokeWorkflow calls invokeWorkflowStep for a step: limiter.Wait.
CallWait(g) ==
  /\ gPc[g] = "idle"
  /\ LET w == LimiterWait(limiterCount, waitList, g) IN
     /\ limiterCount' = w.count
     /\ waitList' = w.queue
     /\ gPc' = [gPc EXCEPT ![g] = IF g \in w.admitted THEN "body" ELSE "wait"]
  /\ UNCHANGED <<ctxCancelled, lastExit>>
  /\ UNCHANGED <<invokerVars, consumerVars, subscriberVars, cueVars>>

\* The body of invokeWorkflowStep, from the return of Wait to a return.
StepBody(g, exit) ==
  /\ gPc[g] = "body"
  /\ ctxCancelled => exit.onCancel
  /\ gPc' = [gPc EXCEPT ![g] = AfterReturn(exit)]
  /\ lastExit' = exit
  /\ UNCHANGED <<limiterCount, waitList, ctxCancelled>>
  /\ UNCHANGED <<invokerVars, consumerVars, subscriberVars, cueVars>>

\* The deferred limiter.Finish of a returning invokeWorkflowStep.
DeferredFinish(g) ==
  /\ gPc[g] = "defer"
  /\ LET f == LimiterFinish(limiterCount, waitList) IN
     /\ limiterCount' = f.count
     /\ waitList' = f.queue
     /\ gPc' = [h \in Goroutines |->
                  IF h = g THEN "idle" ELSE IF h \in f.admitted THEN "body" ELSE gPc[h]]
  /\ UNCHANGED <<ctxCancelled, lastExit>>
  /\ UNCHANGED <<invokerVars, consumerVars, subscriberVars, cueVars>>

\* The root context is cancelled.  A waiter whose Wait context is done is
\* taken off the queue, and its Wait returns the context's error, which
\* invokeWorkflowStep does not look at.
Cancel ==
  /\ ~ctxCancelled
  /\ ctxCancelled' = TRUE
  /\ LET rejected == {g \in Goroutines : gPc[g] = "wait" /\ WaitCtxDone(TRUE)} IN
     /\ waitList' = SelectSeq(waitList, LAMBDA g : g \notin rejected)
     /\ gPc' = [g \in Goroutines |-> IF g \in rejected THEN "body" ELSE gPc[g]]
  /\ UNCHANGED <<limiterCount, lastExit>>
  /\ UNCHANGED <<invokerVars, consumerVars, subscriberVars, cueVars>>

LimiterInit ==
  /\ limiterCount = 0
  /\ waitList = <<>>
  /\ gPc = [g \in Goroutines |-> "idle"]
  /\ ctxCancelled = FALSE
  /\ lastExit = NoExit

LimiterNext ==
  \/ \E g \in Goroutines : CallWait(g)
  \/ \E g \in Goroutines, exit \in ExitPaths : StepBody(g, exit)
  \/ \E g \in Goroutines : DeferredFinish(g)
  \/ Cancel

\* ------------------------------------------------------------------------
\* Invoker: invokerSubscriber and invokeWorkflow, in the first variant
\* (certificates, no database) and in the DB-backed one
\* ------------------------------------------------------------------------

Variants == {"first", "db"}

\* msg.Subject() of an invoke message, as strings.Split(subject, ".") cuts it
Subjects ==
  { <<"workflow", "pipe", "1", "invoke">>,
    <<"workflow", "pipe", "x1", "invoke">>,
    <<"workflow", "pipe">> }

\* strconv.ParseUint(segment, 10, 64): the segments that are decimal numbers
ParseUint(segment) ==
  IF segment = "1" THEN [value |-> 1, err |-> ""]
  ELSE [value |-> 0, err |-> "invalid syntax"]

\* msg.Value(): the certs of a well-formed message, or bytes that are no JSON
Payloads == {"c1", "{not json"}

\* json.Unmarshal(msg.Value(), &inputs)
JsonUnmarshal(payload) ==
  IF payload \in CertsValues THEN [value |-> payload, err |-> ""]
  ELSE [value |-> "", err |-> "invalid character"]

\* what the subscriber is called with: a message, or the error of the
\* subscription
Messages ==
  {[err |-> FALSE, subject |-> sb, payload |-> pl] : sb \in Subjects, pl \in Payloads}
    \cup {[err |-> TRUE, subject |-> <<>>, payload |-> ""]}

\* what evaluating the workflow gives: an error, no definition of that name
\* (first variant: (*defs)[workflowName] is nil), or the workflow
EvalOutcomes == {"error", "missing", "ok"}

\* a workflowStep of the first variant: Job is the *string (FALSE: nil), Type
\* the step's type, JobDecodes whether *Job is the JSON of a nomad.Job
FirstSteps ==
  { [Job |-> FALSE, Type |-> "nomad", JobDecodes |-> FALSE],
    [Job |-> TRUE, Type |-> "nomad", JobDecodes |-> TRUE],
    [Job |-> TRUE, Type |-> "nomad", JobDecodes |-> FALSE],
    [Job |-> TRUE, Type |-> "nix", JobDecodes |-> FALSE] }

\* workflow.Steps of the first variant
FirstWorkflows == [StepNames -> FirstSteps]

\* workflow.Steps of the DB-backed variant: step.IsRunnable() of each step
DbWorkflows == [StepNames -> BOOLEAN]

\* the orders in which `range workflow.Steps` can visit the steps of the map
StepOrders ==
  {o \in [1..Cardinality(StepNames) -> StepNames] : \A i, j \in DOMAIN o : o[i] = o[j] => i = j}

\* the certificates of the steps: step.Success and step.Failure
Certs == StepNames \X {"success", "failure"}

\* publish(logger, subject, stream, cert): one more message on the subject
publish(published, cert) == Append(published, cert)

\* `cert := step.Failure; if err == nil { cert = step.Success }`
SelectCertAlwaysSuccess(stepName, err) == <<stepName, "success">>

SelectCert(stepName, err) ==
  IF err = "" THEN <<stepName, "success">> ELSE <<stepName, "failure">>

\* invokeWorkflowStep of the first variant, between limiter.Wait and
\* limiter.Finish: register the nomad job or build the step, publish the
\* certificate, return the error.  callFails: Register or nixBuild fails.
invokeWorkflowStepFirst(stepName, step, callFails) ==
  IF step.Type = "nomad" /\ ~step.JobDecodes
  THEN [name |-> stepName, err |-> "Invalid Nomad JSON Job", reached |-> FALSE,
        callFailed |-> FALSE, published |-> <<>>, registerCalled |-> FALSE,
        inserted |-> FALSE]
  ELSE LET err == IF callFails THEN "call failed" ELSE "" IN
       [name |-> stepName,
        err |-> IF err # "" THEN "Failed to run step" ELSE "",
        reached |-> TRUE,
        callFailed |-> callFails,
        published |-> publish(<<>>, SelectCert(stepName, err)),
        registerCalled |-> step.Type = "nomad",
        inserted |-> FALSE]

\* the loop of invokeWorkflow in the first variant over the steps still to
\* visit; `acc` holds the error to return, the invocations made and the
\* decision steps passed over
RECURSIVE invokeStepsFirst(_, _, _, _)
invokeStepsFirst(workflow, order, failAt, acc) ==
  IF order = <<>>
  THEN acc
  ELSE LET stepName == Head(order)
           step == workflow[stepName]
       IN
       IF ~step.Job
       THEN invokeStepsFirst(workflow, Tail(order), failAt,
                             [acc EXCEPT !.decisions = @ \cup {stepName}])
       ELSE LET r == invokeWorkflowStepFirst(stepName, step, failAt = stepName)
                acc2 == [acc EXCEPT !.steps = Append(@, r)]
            IN
            IF r.err # ""
            THEN [acc2 EXCEPT !.err = r.err]
            ELSE invokeStepsFirst(workflow, Tail(order), failAt, acc2)

NoSteps == [err |-> "", steps |-> <<>>, decisions |-> {}]

\* invokeWorkflow of the first variant
invokeWorkflowFirst(eval, workflow, order, failAt) ==
  IF eval = "error"
  THEN [NoSteps EXCEPT !.err = "Invalid Workflow Definition, ignoring"]
         @@ [panic |-> FALSE]
  ELSE IF eval = "missing"
  THEN NoSteps @@ [panic |-> TRUE]
  ELSE invokeStepsFirst(workflow, order, failAt, NoSteps) @@ [panic |-> FALSE]

\* the loop of invokeWorkflow in the DB-backed variant; `acc` also holds the
\* table, the runner's jobs and the UUIDs handed out
RECURSIVE invokeStepsDb(_, _, _, _, _, _, _, _)
invokeStepsDb(workflow, order, wfInstanceId, inputs, failAt, fail, now, acc) ==
  IF order = <<>>
  THEN acc
  ELSE LET stepName == Head(order)
           r == invokeWorkflowStep(acc.tbl, acc.jobs, acc.uuid + 1, wfInstanceId, inputs,
                                   stepName, workflow[stepName],
                                   IF failAt = stepName THEN fail ELSE "none", now)
           step == [name |-> stepName, err |-> r.err, reached |-> FALSE,
                    callFailed |-> r.registerCalled /\ r.err = "Failed to run step",
                    published |-> <<>>, registerCalled |-> r.registerCalled,
                    inserted |-> r.tbl # acc.tbl /\ workflow[stepName]]
           acc2 == [acc EXCEPT !.tbl = r.tbl, !.jobs = r.jobs,
                               !.uuid = @ + (IF r.uuidUsed THEN 1 ELSE 0),
                               !.steps = Append(@, step),
                               !.decisions = IF workflow[stepName] THEN @ ELSE @ \cup {stepName},
                               !.deregisterCalled = @ \/ r.deregisterCalled]
       IN
       IF r.err # ""
       THEN [acc2 EXCEPT !.err = r.err]
       ELSE invokeStepsDb(workflow, Tail(order), wfInstanceId, inputs, failAt, fail, now, acc2)

\* invokeWorkflow of the DB-backed variant
invokeWorkflow(tbl, jobs, uuid, eval, workflow, order, wfInstanceId, inputs, failAt, fail, now) ==
  LET start == NoSteps @@ [tbl |-> tbl, jobs |-> jobs, uuid |-> uuid,
                           deregisterCalled |-> FALSE]
  IN
  IF eval = "error"
  THEN [start EXCEPT !.err = "Invalid Workflow Definition, ignoring"]
  ELSE invokeStepsDb(workflow, order, wfInstanceId, inputs, failAt, fail, now, start)

\* what invokerSubscriber does before it calls invokeWorkflow: "fatal"
\* (logger.Fatalf exits the process), "panic" (index out of range), "drop"
\* (log and return) or "invoke".  The first variant takes the payload as it
\* is; the DB-backed one decodes it first.
ParseMessage(variant, msgErr, subject, payload) ==
  IF msgErr THEN "fatal"
  ELSE IF variant = "db" /\ JsonUnmarshal(payload).err # "" THEN "drop"
  ELSE IF Len(subject) < 3 THEN "panic"
  ELSE IF ParseUint(subject[3]).err # "" THEN "drop"
  ELSE "invoke"

\* the message is malformed: too few segments in the subject, an id segment
\* that is no number, or a payload that is no JSON
Malformed(subject, payload) ==
  \/ Len(subject) < 3
  \/ (Len(subject) >= 3 /\ ParseUint(subject[3]).err # "")
  \/ JsonUnmarshal(payload).err # ""

NoDelivery ==
  [variant |-> "", malformed |-> FALSE, parsed |-> "", crashed |-> FALSE,
   invoked |-> FALSE, eval |-> "", nSteps |-> 0, err |-> "", steps |-> <<>>,
   decisions |-> {}, deregisterCalled |-> FALSE]

\* the certificates the invocations of a delivery published
RECURSIVE PublishedBy(_)
PublishedBy(steps) ==
  IF steps = <<>> THEN <<>> ELSE steps[1].published \o PublishedBy(Tail(steps))

\* The subscriber of the first variant has parsed the message.
FirstOutcome(msg, parsed, eval, workflow, order, failAt) ==
  LET r == IF parsed = "invoke"
           THEN invokeWorkflowFirst(eval, workflow, order, failAt)
           ELSE NoSteps @@ [panic |-> FALSE]
      dies == parsed \in {"fatal", "panic"} \/ r.panic
      out == PublishedBy(r.steps)
  IN
  /\ crashed' = IF dies THEN crashed \cup {"first"} ELSE crashed
  /\ certTopic' =
       [c \in Certs |-> certTopic[c] + Cardinality({i \in DOMAIN out : out[i] = c})]
  /\ lastDelivery' =
       [variant |-> "first",
        malformed |-> ~msg.err /\ Malformed(msg.subject, msg.payload),
        parsed |-> parsed, crashed |-> dies, invoked |-> parsed = "invoke",
        eval |-> IF parsed = "invoke" THEN eval ELSE "",
        nSteps |-> IF parsed = "invoke" /\ eval = "ok" THEN Cardinality(StepNames) ELSE 0,
        err |-> r.err, steps |-> r.steps, decisions |-> r.decisions,
        deregisterCalled |-> FALSE]

\* The subscriber of the first variant is called with an invoke message; the
\* evaluation of the workflow, the order of its steps and the step whose
\* Register or build fails are drawn when the subscriber gets to them.
DeliverFirst(msg) ==
  /\ "first" \notin crashed
  /\ nMessages < MaxMessages
  /\ nMessages' = nMessages + 1
  /\ LET parsed == ParseMessage("first", msg.err, msg.subject, msg.payload)
         nothing == [n \in StepNames |-> CHOOSE st \in FirstSteps : ~st.Job]
         anyOrder == CHOOSE o \in StepOrders : TRUE
         anyStep == CHOOSE n \in StepNames : TRUE
     IN
     IF parsed # "invoke"
     THEN FirstOutcome(msg, parsed, "", nothing, anyOrder, anyStep)
     ELSE \E eval \in EvalOutcomes :
            IF eval # "ok"
            THEN FirstOutcome(msg, parsed, eval, nothing, anyOrder, anyStep)
            ELSE \E workflow \in FirstWorkflows, order \in StepOrders, failAt \in StepNames :
                   FirstOutcome(msg, parsed, eval, workflow, order, failAt)
  /\ UNCHANGED <<invokerVars, consumerVars, limiterVars, cueVars>>

\* The subscriber of the DB-backed variant has parsed the message.
DbOutcome(msg, parsed, eval, workflow, order, failAt, fail, now) ==
  LET wfInstanceId == IF parsed = "invoke" THEN ParseUint(msg.subject[3]).value ELSE 0
      idle == NoSteps @@ [tbl |-> stepInstances, jobs |-> nomadJobs,
                          uuid |-> uuidCounter, deregisterCalled |-> FALSE]
      r == IF parsed = "invoke"
           THEN invokeWorkflow(stepInstances, nomadJobs, uuidCounter, eval, workflow,
                               order, wfInstanceId, JsonUnmarshal(msg.payload).value,
                               failAt, fail, now)
           ELSE idle
      dies == parsed \in {"fatal", "panic"}
  IN
  /\ crashed' = IF dies THEN crashed \cup {"db"} ELSE crashed
  /\ stepInstances' = r.tbl
  /\ nomadJobs' = r.jobs
  /\ uuidCounter' = r.uuid
  /\ registerCalls' =
       [k \in StepKeys |->
          registerCalls[k]
            + Cardinality({i \in DOMAIN r.steps :
                             /\ r.steps[i].registerCalled
                             /\ k = <<r.steps[i].name, wfInstanceId>>})]
  /\ lastDelivery' =
       [variant |-> "db",
        malformed |-> ~msg.err /\ Malformed(msg.subject, msg.payload),
        parsed |-> parsed, crashed |-> dies, invoked |-> parsed = "invoke",
        eval |-> IF parsed = "invoke" THEN eval ELSE "",
        nSteps |-> IF parsed = "invoke" /\ eval = "ok" THEN Cardinality(StepNames) ELSE 0,
        err |-> r.err, steps |-> r.steps, decisions |-> r.decisions,
        deregisterCalled |-> r.deregisterCalled]

\* The subscriber of the DB-backed variant is called with an invoke message;
\* time.Now() is later at every message.
DeliverDb(msg) ==
  /\ "db" \notin crashed
  /\ nMessages < MaxMessages
  /\ nMessages' = nMessages + 1
  /\ LET parsed == ParseMessage("db", msg.err, msg.subject, msg.payload)
         nothing == [n \in StepNames |-> FALSE]
         anyOrder == CHOOSE o \in StepOrders : TRUE
         anyStep == CHOOSE n \in StepNames : TRUE
         now == nMessages + 1
     IN
     IF parsed # "invoke"
     THEN DbOutcome(msg, parsed, "", nothing, anyOrder, anyStep, "none", now)
     ELSE \E eval \in EvalOutcomes \ {"missing"} :
            IF eval # "ok"
            THEN DbOutcome(msg, parsed, eval, nothing, anyOrder, anyStep, "none", now)
            ELSE \E workflow \in DbWorkflows, order \in StepOrders, failAt \in StepNames,
                    fail \in InvokerFailures :
                   DbOutcome(msg, parsed, eval, workflow, order, failAt, fail, now)
  /\ UNCHANGED <<certTopic, nInvocations, delivered, lastInvoke>>
  /\ UNCHANGED <<consumerVars, limiterVars, cueVars>>

SubscriberInit ==
  /\ certTopic = [c \in Certs |-> 0]
  /\ crashed = {}
  /\ nMessages = 0
  /\ lastDelivery = NoDelivery

SubscriberNext ==
  \/ \E msg \in Messages : DeliverFirst(msg)
  \/ \E msg \in Messages : DeliverDb(msg)

\* ------------------------------------------------------------------------
\* Input definitions: cueMutex around the calls into CUE
\* ------------------------------------------------------------------------

CueCallers == 1..NumCueCallers

\* the methods of InputDefinitionMatch and InputDefinitions a goroutine can call
CueFunctions ==
  {"WithInputs", "WithoutInputs", "UnmarshalJSON", "MarshalJSON", "Scan", "Flow"}

\* the method of this package that a method calls in its body; "": none, its
\* body only calls into CUE
Callee(fn) ==
  CASE fn = "Scan" -> "UnmarshalJSON"
    [] fn = "UnmarshalJSON" -> "WithoutInputs"
    [] fn = "MarshalJSON" -> "WithoutInputs"
    [] fn = "WithoutInputs" -> "WithInputs"
    [] OTHER -> ""

\* the methods that start with cueMutex.Lock() and `defer cueMutex.Unlock()`
LocksMutexOnlyFlow(fn) == fn = "Flow"

LocksMutex(fn) == fn \in {"WithInputs", "Flow"}

\* the names of the inputs of an action in the order of their declaration
DeclaredInputs == <<"a", "b">>

\* the orders in which `for name, input := range *self` can visit the entries
\* of the map: Go leaves the iteration order of a map unspecified
RangeOrders(names) ==
  {o \in [DOMAIN names -> {names[i] : i \in DOMAIN names}] :
     \A i, j \in DOMAIN o : o[i] = o[j] => i = j}

Top(stack) == stack[Len(stack)]

\* a return of the innermost function: its deferred Unlock runs, and the
\* caller goes on behind the call
CueReturn(g) ==
  /\ cueStack' = [cueStack EXCEPT ![g] = SubSeq(@, 1, Len(@) - 1)]
  /\ cuePc' = [cuePc EXCEPT ![g] = IF Len(cueStack[g]) = 1 THEN "idle" ELSE "ret"]
  /\ cueHolder' = IF LocksMutex(Top(cueStack[g])) /\ cueHolder = g THEN 0 ELSE cueHolder

\* A goroutine calls one of the methods.
CueEnter(g, fn) ==
  /\ cuePc[g] = "idle"
  /\ cueStack' = [cueStack EXCEPT ![g] = <<fn>>]
  /\ cuePc' = [cuePc EXCEPT ![g] = "call"]
  /\ UNCHANGED <<cueHolder, flowVisited>>
  /\ UNCHANGED <<invokerVars, consumerVars, limiterVars, subscriberVars>>

\* The first statements of a method: cueMutex.Lock(), which blocks while the
\* mutex is held (sync.Mutex is not reentrant), in the methods that have it.
CueBegin(g) ==
  /\ cuePc[g] = "call"
  /\ LocksMutex(Top(cueStack[g])) => cueHolder = 0
  /\ cueHolder' = IF LocksMutex(Top(cueStack[g])) THEN g ELSE cueHolder
  /\ cuePc' = [cuePc EXCEPT ![g] = "body"]
  /\ UNCHANGED <<cueStack, flowVisited>>
  /\ UNCHANGED <<invokerVars, consumerVars, limiterVars, subscriberVars>>

\* The body of a method: UnmarshalJSON returns the error of json.Unmarshal
\* (ok = FALSE); a method with a callee calls it; Flow visits the inputs in
\* the order of `range`, compiles and returns; WithInputs compiles and returns.
CueBody(g, ok, order) ==
  /\ cuePc[g] = "body"
  /\ LET fn == Top(cueStack[g]) IN
     IF fn = "UnmarshalJSON" /\ ~ok
     THEN CueReturn(g) /\ UNCHANGED flowVisited
     ELSE IF Callee(fn) # ""
     THEN /\ cueStack' = [cueStack EXCEPT ![g] = Append(@, Callee(fn))]
          /\ cuePc' = [cuePc EXCEPT ![g] = "call"]
          /\ UNCHANGED <<cueHolder, flowVisited>>
     ELSE /\ CueReturn(g)
          /\ flowVisited' = IF fn = "Flow" THEN order ELSE flowVisited
  /\ UNCHANGED <<invokerVars, consumerVars, limiterVars, subscriberVars>>

\* What a method does with the value its callee returned (Err, Syntax,
\* cueformat.Node, json.Marshal), up to its return.
CueAfterCall(g) ==
  /\ cuePc[g] = "ret"
  /\ CueReturn(g)
  /\ UNCHANGED flowVisited
  /\ UNCHANGED <<invokerVars, consumerVars, limiterVars, subscriberVars>>

CueInit ==
  /\ cueHolder = 0
  /\ cueStack = [g \in CueCallers |-> <<>>]
  /\ cuePc = [g \in CueCallers |-> "idle"]
  /\ flowVisited = <<>>

CueNext ==
  \/ \E g \in CueCallers, fn \in CueFunctions : CueEnter(g, fn)
  \/ \E g \in CueCallers : CueBegin(g)
  \/ \E g \in CueCallers, ok \in BOOLEAN, order \in RangeOrders(DeclaredInputs) :
       CueBody(g, ok, order)
  \/ \E g \in CueCallers : CueAfterCall(g)

Init == InvokerInit /\ ConsumerInit /\ LimiterInit /\ SubscriberInit /\ CueInit

InvokerSpec == Init /\ [][InvokerNext]_vars

ConsumerSpec == Init /\ [][ConsumerNext]_vars

LimiterSpec == Init /\ [][LimiterNext]_vars

SubscriberSpec == Init /\ [][SubscriberNext]_vars

CueSpec == Init /\ [][CueNext]_vars

\* ------------------------------------------------------------------------
\* Properties of the Invoker
\* ------------------------------------------------------------------------

LastRows == RowsOf(stepInstances, lastInvoke.stepName, lastInvoke.wfInstanceId)

LastMessage == <<lastInvoke.stepName, lastInvoke.wfInstanceId, lastInvoke.inputs>>

\* C1: for every (step name, workflow instance id), the job runner's Register
\* is called at most once, however often the invoke message is delivered.
C1_RegisterAtMostOnce ==
  \A k \in StepKeys : registerCalls[k] <= 1

C3_RegisterFailureRollsBack ==
  lastInvoke.registerFailed
    => /\ lastInvoke.err # ""
       /\ LastRows = {}
       /\ \A r \in stepInstances : r.ID # lastInvoke.id

\* Register was called for a runnable step and returned an error
C3_Witness ==
  lastInvoke.runnable /\ lastInvoke.registerFailed /\ lastInvoke.id # 0

\* C4: after invokeWorkflowStep returned for a runnable step, the job with the
\* step instance's id is registered with the runner if and only if the
\* step_instance row with that id is persisted.
C4_RegisterAtomicWithInsert ==
  (lastInvoke.runnable /\ lastInvoke.id # 0)
    => ((lastInvoke.id \in nomadJobs) <=> (\E r \in stepInstances : r.ID = lastInvoke.id))

\* C17: when a step with a prior step_instance row is evaluated as no longer
\* runnable and its job is deregistered, the job is gone from the runner if
\* and only if finished_at is stamped on the persisted row.
C17_DeregisterAtomicWithStamp ==
  (~lastInvoke.runnable /\ lastInvoke.deregisterCalled)
    => /\ Cardinality(LastRows) = 1
       /\ \A r \in LastRows :
            (lastInvoke.id \notin nomadJobs) <=> (r.FinishedAt # 0)


\* ------------------------------------------------------------------------
\* Properties of the Event Consumer
\* ------------------------------------------------------------------------

LastAlloc == lastEvent.event.Allocation

\* the last event processed is a decodable Allocation/AllocationUpdated event
LastIsAllocationUpdate ==
  /\ lastEvent.event.Index # 0
  /\ lastEvent.event.Topic = "Allocation"
  /\ lastEvent.event.Type = "AllocationUpdated"
  /\ lastEvent.event.Decodes

\* C5: the cursor never decreases: neither Start's variable index nor the
\* persisted last event index, whatever batches the stream delivers.
C5_CursorMonotone ==
  [][/\ index' >= index
     /\ GetLastNomadEvent(nomadEventIdx') >= GetLastNomadEvent(nomadEventIdx)]_vars

\* a batch with an index below the cursor was re-emitted and skipped after
\* events had been processed
C5_Witness ==
  /\ lastSkipped # 0
  /\ lastSkipped < index
  /\ processedIdx # {}
  /\ consumerPc = "listening"

\* C6: after events were processed without error, the persisted cursor is the
\* highest of their indices, and last_index + 1, which a restart loads, lies
\* strictly after every processed event.
C6_PersistedCursorIsMax ==
  processedIdx # {}
    => /\ GetLastNomadEvent(nomadEventIdx) \in processedIdx
       /\ \A i \in processedIdx : i <= GetLastNomadEvent(nomadEventIdx)
       /\ \A i \in processedIdx : GetLastNomadEvent(nomadEventIdx) + 1 > i

\* events of two different indices were processed without error
C6_Witness ==
  /\ Cardinality(processedIdx) >= 2
  /\ lastEvent.err = ""
  /\ lastEvent.saved

\* C7: once a "complete" event of a known Run has been processed, processing
\* a replay of it (same index) publishes no fact and calls no Deregister.
C7_ReplayHasNoEffect ==
  lastEvent.replayOfDone
    => (lastEvent.published = <<>> /\ ~lastEvent.deregisterCalled)

\* C8: once an AllocationUpdated event with a client-terminal status of a
\* known Run has been processed (handled and saved without error), the Run's
\* finished_at is set and at most one of success and failure was published.
C8_TerminalClosure ==
  /\ (/\ LastIsAllocationUpdate
      /\ ClientTerminalStatus(LastAlloc.ClientStatus)
      /\ LastAlloc.JobID \in DOMAIN runs
      /\ lastEvent.err = "")
       => runs[LastAlloc.JobID].FinishedAt # 0
  /\ \A id \in DOMAIN runs :
       \/ factsPublished[[RunId |-> id, Value |-> runs[id].Success]] = 0
       \/ factsPublished[[RunId |-> id, Value |-> runs[id].Failure]] = 0

\* C9: handling a "complete" or "failed" AllocationUpdated event of a known
\* Run publishes the Run's success value for complete and its failure value
\* for failed, with run_id the job id; never more than one fact, and exactly
\* one when the handler returns without error.
C9_FactOfTerminalEvent ==
  (/\ LastIsAllocationUpdate
   /\ LastAlloc.ClientStatus \in {"complete", "failed"}
   /\ LastAlloc.JobID \in DOMAIN runs)
    => /\ Len(lastEvent.published) <= 1
       /\ \A i \in DOMAIN lastEvent.published :
            /\ lastEvent.published[i].RunId = LastAlloc.JobID
            /\ lastEvent.published[i].Value =
                 IF LastAlloc.ClientStatus = "complete"
                 THEN runs[LastAlloc.JobID].Success
                 ELSE runs[LastAlloc.JobID].Failure
       /\ lastEvent.handlerErr = "" => Len(lastEvent.published) = 1

\* a "failed" event of the known Run was handled and its fact published
C9_Witness ==
  /\ LastIsAllocationUpdate
  /\ LastAlloc.ClientStatus = "failed"
  /\ LastAlloc.JobID = KnownRun
  /\ lastEvent.handlerErr = ""
  /\ lastEvent.published = <<[RunId |-> KnownRun, Value |-> "failure-fact"]>>

\* the cases in which the handler ignores the last event: not an
\* Allocation/AllocationUpdated event, a non-terminal status, a job id that
\* is no UUID, no Run found for the job id, a terminal status other than
\* complete and failed.  (A failed Run lookup is none of them.)
LastEventIgnored ==
  /\ lastEvent.event.Index # 0
  /\ \/ ~(lastEvent.event.Topic = "Allocation"
          /\ lastEvent.event.Type = "AllocationUpdated")
     \/ /\ LastIsAllocationUpdate
        /\ \/ ~ClientTerminalStatus(LastAlloc.ClientStatus)
           \/ LastAlloc.JobID \notin UuidStrings
           \/ /\ lastEvent.handlerErr # "lookup"
              /\ \/ LastAlloc.JobID \notin DOMAIN runs
                 \/ LastAlloc.ClientStatus \notin {"complete", "failed"}

\* C10: an ignored event changes nothing: the handler returns no error, no
\* Run is updated, no fact is published and Deregister is not called.
C10_IgnoredEventsChangeNothing ==
  LastEventIgnored
    => /\ lastEvent.handlerErr = ""
       /\ ~lastEvent.runUpdated
       /\ ~lastEvent.runsChanged
       /\ lastEvent.published = <<>>
       /\ ~lastEvent.deregisterCalled

\* a "lost" event of the known Run was handled
C10_Witness ==
  /\ LastEventIgnored
  /\ LastIsAllocationUpdate
  /\ LastAlloc.ClientStatus = "lost"
  /\ LastAlloc.JobID = KnownRun
  /\ lastEvent.saved

\* C11: when processing an event returned an error, the event is not saved
\* and the cursor a restart loads (last saved index + 1) is not past the
\* event, so that the restarted Start processes the event again.
C11_FailedEventIsReprocessed ==
  (lastEvent.event.Index # 0 /\ lastEvent.err # "")
    => /\ ~lastEvent.saved
       /\ GetLastNomadEvent(nomadEventIdx) + 1 <= lastEvent.event.Index

\* the facts published for the Run of a job, success and failure together
PublishedFor(id) ==
  factsPublished[[RunId |-> id, Value |-> runs[id].Success]]
    + factsPublished[[RunId |-> id, Value |-> runs[id].Failure]]

\* C12: terminal handling is all-or-nothing: for every Run, its finished_at
\* is set if and only if its fact was published, if and only if its job is
\* deregistered, and the fact is published at most once in total.
C12_TerminalAllOrNothing ==
  \A id \in DOMAIN runs :
    /\ PublishedFor(id) <= 1
    /\ (runs[id].FinishedAt # 0) <=> (PublishedFor(id) = 1)
    /\ (id \notin runnerJobs) <=> (PublishedFor(id) = 1)

\* ------------------------------------------------------------------------
\* Properties of the limiter
\* ------------------------------------------------------------------------

\* the goroutines between limiter.Wait and limiter.Finish
Holders == {g \in Goroutines : gPc[g] \in {"body", "defer"}}

C14_CancellationHonoured ==
  [][ctxCancelled => \A g \in Goroutines : (gPc[g] = "wait" => gPc'[g] # "body")]_vars

\* ------------------------------------------------------------------------
\* Properties of invokerSubscriber and invokeWorkflow
\* ------------------------------------------------------------------------

\* the last delivery evaluated the workflow and walked its steps
LastWalkedSteps == lastDelivery.invoked /\ lastDelivery.eval = "ok"

\* C15: an invoke message with a malformed subject or a malformed JSON
\* payload is dropped: the subscriber returns without invoking a workflow,
\* and the process goes on.
C15_MalformedMessageDropped ==
  lastDelivery.malformed
    => /\ lastDelivery.parsed = "drop"
       /\ ~lastDelivery.invoked
       /\ ~lastDelivery.crashed
       /\ lastDelivery.variant \notin crashed

\* C16: for every decision step (job absent) that invokeWorkflow came to,
\* Register is not called, no step_instance row is inserted and the step's
\* success or failure output is published; nothing else is done for it.
C16_DecisionPublishesOutput ==
  LastWalkedSteps
    => \A n \in lastDelivery.decisions :
         /\ \A i \in DOMAIN lastDelivery.steps :
              lastDelivery.steps[i].name = n
                => (~lastDelivery.steps[i].registerCalled /\ ~lastDelivery.steps[i].inserted)
         /\ \E i \in DOMAIN lastDelivery.steps :
              /\ lastDelivery.steps[i].name = n
              /\ Len(lastDelivery.steps[i].published) = 1
              /\ lastDelivery.steps[i].published[1][1] = n

\* the Evaluator failed in the last delivery: the workflow definition could
\* not be instantiated, or the build of a step of the first variant failed
EvaluatorFailed ==
  /\ lastDelivery.invoked
  /\ \/ lastDelivery.eval = "error"
     \/ \E i \in DOMAIN lastDelivery.steps :
          lastDelivery.steps[i].callFailed /\ ~lastDelivery.steps[i].registerCalled

\* C18: whenever the Evaluator failed for an invocation, a failure
\* certificate was published on workflow.<name>.<id>.cert.
C18_FailureCertOnEvaluatorFailure ==
  EvaluatorFailed
    => \E i \in DOMAIN lastDelivery.steps :
         \E j \in DOMAIN lastDelivery.steps[i].published :
           lastDelivery.steps[i].published[j][2] = "failure"

\* C19: every invokeWorkflowStep of the first variant that got to the
\* publication published exactly one certificate: the step's failure
\* template when Register or the build returned an error, its success
\* template otherwise; and it returned an error exactly when it published
\* the failure template.
C19_ExactlyOneCertificate ==
  lastDelivery.variant = "first"
    => \A i \in DOMAIN lastDelivery.steps :
         LET st == lastDelivery.steps[i] IN
         st.reached
           => /\ st.published =
                   <<<<st.name, IF st.callFailed THEN "failure" ELSE "success">>>>
              /\ (st.err # "") <=> (st.published[1][2] = "failure")

\* the first variant invoked two steps: the first published its success
\* template, the second failed and published its failure template
C19_Witness ==
  /\ lastDelivery.variant = "first"
  /\ Len(lastDelivery.steps) = 2
  /\ lastDelivery.steps[1].reached /\ lastDelivery.steps[1].err = ""
  /\ lastDelivery.steps[2].reached /\ lastDelivery.steps[2].callFailed
  /\ lastDelivery.err = "Failed to run step"
  /\ certTopic[<<lastDelivery.steps[2].name, "failure">>] >= 1

\* C20: in the DB-backed variant every step of the evaluated workflow is
\* invoked, also after the invocation of an earlier step returned an error.
C20_DbVariantInvokesAllSteps ==
  (lastDelivery.variant = "db" /\ LastWalkedSteps)
    => Len(lastDelivery.steps) = lastDelivery.nSteps

\* ------------------------------------------------------------------------
\* Properties of the input definitions
\* ------------------------------------------------------------------------

\* the goroutines inside a compile: in the body of WithInputs or of Flow
Compiling ==
  {g \in CueCallers :
     cuePc[g] = "body" /\ Top(cueStack[g]) \in {"WithInputs", "Flow"}}

\* the goroutines in a method that has locked cueMutex and not yet returned
InLockedMethod ==
  {g \in CueCallers :
     \E i \in DOMAIN cueStack[g] :
       /\ LocksMutex(cueStack[g][i])
       /\ (i < Len(cueStack[g]) \/ cuePc[g] # "call")}

\* C21: the calls into CUE serialize through cueMutex: at most one goroutine
\* is inside a compile in WithInputs or Flow, and it holds the mutex; the mutex
\* is held exactly while its holder is in a method that locked it, so every
\* return releases it; and no goroutine comes to a Lock while it holds the
\* mutex, so the holder can always go on and callers never deadlock.
C21_CueMutexSerializes ==
  /\ Cardinality(Compiling) <= 1
  /\ \A g \in Compiling : cueHolder = g
  /\ \A g \in CueCallers : (cueHolder = g) <=> (g \in InLockedMethod)
  /\ \A g \in CueCallers :
       (cuePc[g] = "call" /\ LocksMutex(Top(cueStack[g]))) => cueHolder # g
  /\ cueHolder # 0 => cuePc[cueHolder] = "body"

\* one goroutine compiles in WithInputs, which it came to from Scan, while
\* another one waits at the Lock of Flow
C21_Witness ==
  \E g, h \in CueCallers :
    /\ g \in Compiling
    /\ cueStack[g] = <<"Scan", "UnmarshalJSON", "WithoutInputs", "WithInputs">>
    /\ cuePc[h] = "call" /\ cueStack[h] = <<"Flow">>

\* C22: every traversal of the inputs of an action, as in Flow, visits them
\* in the order of their declaration.
C22_InputsInDeclarationOrder ==
  flowVisited # <<>> => flowVisited = DeclaredInputs

\* ------------------------------------------------------------------------
\* The transaction of an event
\* ------------------------------------------------------------------------

\* C23: an event is handled and saved in one transaction: when the
\* transaction committed the handler had returned without error and the event
\* is saved; an event is saved only after its handler returned without error;
\* a handler error leaves no saved row and no change of the run table.
C23_SavedIffHandled ==
  lastEvent.event.Index # 0
    => /\ lastEvent.err = ""
            => (lastEvent.handlerErr = "" /\ lastEvent.saved
                /\ lastEvent.event.Index \in nomadEventIdx)
       /\ lastEvent.saved => (lastEvent.handlerErr = "" /\ lastEvent.err = "")
       /\ lastEvent.handlerErr # ""
            => (~lastEvent.saved /\ ~lastEvent.runsChanged /\ lastEvent.err # "")

\* the handler of an event returned an error after the event of an earlier
\* batch had been handled and saved, and only that one is saved
C23_Witness ==
  /\ lastEvent.handlerErr # ""
  /\ ~lastEvent.saved
  /\ processedIdx # {}
  /\ nomadEventIdx = processedIdx
  /\ lastEvent.event.Index \notin nomadEventIdx

====
